---- MODULE Spec2Model ----
(***************************************************************************)
(* The password game: a rule set of string predicates and the reveal       *)
(* engine that shows the rules one after the other.                        *)
(*                                                                         *)
(* Three pages carry the engine: PasswordGamePage (src/app/page.tsx, ten   *)
(* rules, functional state updater), Page (src/schema/password-schema.tsx, *)
(* ten rules, effect reading the rendered state) and page (same file,      *)
(* three rules).  They are run side by side on the same input changes.     *)
(*                                                                         *)
(* A string is a sequence of one-character strings.                        *)
(***************************************************************************)
EXTENDS Integers, Sequences, FiniteSets, TLC

(***************************************************************************)
(* Characters and the character classes of the regular expressions         *)
(***************************************************************************)
DigitSeq == <<"0", "1", "2", "3", "4", "5", "6", "7", "8", "9">>
UpperSeq == <<"A", "B", "C", "D", "E", "F", "G", "H", "I", "J", "K", "L", "M",
              "N", "O", "P", "Q", "R", "S", "T", "U", "V", "W", "X", "Y", "Z">>
LowerSeq == <<"a", "b", "c", "d", "e", "f", "g", "h", "i", "j", "k", "l", "m",
              "n", "o", "p", "q", "r", "s", "t", "u", "v", "w", "x", "y", "z">>

Range(f) == {f[i] : i \in DOMAIN f}

\* [0-9] and \d
Digit == Range(DigitSeq)
\* [A-Z]
Upper == Range(UpperSeq)
\* [a-z]
Lower == Range(LowerSeq)
\* [!@#$%^&*()]
Special == {"!", "@", "#", "$", "%", "^", "&", "*", "(", ")"}
\* \s (the members of the class that the model's inputs can hold); "LS" is
\* the one character U+2028, LINE SEPARATOR, which a text input accepts
Space == {" ", "\t", "\n", "\r", "\f", "LS"}
\* the characters that . does not match
LineTerminator == {"\n", "\r", "LS"}
\* \w
WordChar == Digit \cup Upper \cup Lower \cup {"_"}
\* [+\-*/]
Operator == {"+", "-", "*", "/"}

\* String.prototype.toLowerCase on one character
toLowerCaseChar(c) ==
    IF c \in Upper
    THEN LowerSeq[CHOOSE i \in DOMAIN UpperSeq : UpperSeq[i] = c]
    ELSE c

\* String.prototype.toLowerCase
toLowerCase(s) == [i \in DOMAIN s |-> toLowerCaseChar(s[i])]

\* the value of one decimal digit
DigitValue(c) == (CHOOSE i \in DOMAIN DigitSeq : DigitSeq[i] = c) - 1

\* parseInt on a string of decimal digits (what (\d+) captures)
RECURSIVE parseInt(_)
parseInt(s) ==
    IF Len(s) = 0 THEN 0
    ELSE 10 * parseInt(SubSeq(s, 1, Len(s) - 1)) + DigitValue(s[Len(s)])

(***************************************************************************)
(* Regular-expression primitives                                           *)
(***************************************************************************)
\* the literal w matches s at position i
MatchesAt(s, i, w) ==
    /\ i >= 1
    /\ i + Len(w) - 1 <= Len(s)
    /\ \A j \in 1..Len(w) : s[i + j - 1] = w[j]

\* the literal w (given in lower case) matches s at position i under flag i
MatchesAtI(s, i, w) ==
    /\ i >= 1
    /\ i + Len(w) - 1 <= Len(s)
    /\ \A j \in 1..Len(w) : toLowerCaseChar(s[i + j - 1]) = w[j]

\* s has a word character at index k
IsWordAt(s, k) == k \in 1..Len(s) /\ s[k] \in WordChar

\* \b holds in front of index p (p = Len(s) + 1: at the end of s)
WordBoundary(s, p) == IsWordAt(s, p - 1) # IsWordAt(s, p)

\* .* can consume exactly s[i..j-1]
DotStar(s, i, j) == i <= j /\ \A k \in i..(j - 1) : s[k] \notin LineTerminator

\* the index after the longest run of characters of class C that starts at i
RECURSIVE RunEnd(_, _, _)
RunEnd(s, i, C) ==
    IF i <= Len(s) /\ s[i] \in C THEN RunEnd(s, i + 1, C) ELSE i

\* Array.prototype.reverse
Reverse(s) == [i \in 1..Len(s) |-> s[Len(s) + 1 - i]]

(***************************************************************************)
(* The validators of the rule set                                          *)
(***************************************************************************)
\* rule 1: value.length >= 5
validator1(value) == Len(value) >= 5

\* rule 2: /[0-9]/.test(value)
validator2(value) == \E i \in 1..Len(value) : value[i] \in Digit

\* rule 3: /[A-Z]/.test(value)
validator3(value) == \E i \in 1..Len(value) : value[i] \in Upper

\* rule 4: /[!@#$%^&*()]/.test(value)
validator4(value) == \E i \in 1..Len(value) : value[i] \in Special

\* rule 5: !/(.)\1{2}/.test(value)
validator5(value) ==
    ~ \E i \in 1..(Len(value) - 2) :
          /\ value[i] \notin LineTerminator
          /\ value[i + 1] = value[i]
          /\ value[i + 2] = value[i]

\* value.split(/\s+/): cur is the piece being read, acc the pieces found
RECURSIVE splitFrom(_, _, _, _)
splitFrom(value, i, cur, acc) ==
    IF i > Len(value) THEN Append(acc, cur)
    ELSE IF value[i] \in Space
         THEN splitFrom(value, RunEnd(value, i, Space), <<>>, Append(acc, cur))
         ELSE splitFrom(value, i + 1, Append(cur, value[i]), acc)

split(value) == splitFrom(value, 1, <<>>, <<>>)

IsLowerChar(c) == c \in Lower

\* cleaned without the replace: the word is only lowercased
cleanedKeepAll(word) == toLowerCase(word)

\* word.toLowerCase().replace(/[^a-z]/g, '')
cleaned(word) == SelectSeq(toLowerCase(word), IsLowerChar)

\* rule 6: some word, cleaned, has 3 letters or more and is its own reverse
validator6(value) ==
    LET words == split(value)
    IN  \E k \in 1..Len(words) :
            /\ Len(cleaned(words[k])) >= 3
            /\ cleaned(words[k]) = Reverse(cleaned(words[k]))

\* rule 7 without the two \b
validator7Unanchored(value) ==
    \E i \in 1..(Len(value) - 3) :
        \/ /\ value[i] = "1" /\ value[i + 1] = "9"
           /\ value[i + 2] \in Digit /\ value[i + 3] \in Digit
        \/ /\ value[i] = "2" /\ value[i + 1] = "0"
           /\ value[i + 2] \in {"0", "1", "2"} /\ value[i + 3] \in Digit

\* rule 7: /\b(19\d{2}|20[0-2]\d)\b/.test(value)
validator7(value) ==
    \E i \in 1..(Len(value) - 3) :
        /\ WordBoundary(value, i)
        /\ \/ /\ value[i] = "1" /\ value[i + 1] = "9"
              /\ value[i + 2] \in Digit /\ value[i + 3] \in Digit
           \/ /\ value[i] = "2" /\ value[i + 1] = "0"
              /\ value[i + 2] \in {"0", "1", "2"} /\ value[i + 3] \in Digit
        /\ WordBoundary(value, i + 4)

\* /\b(f1|f2|..)\b.*\b(s1|s2|..)\b/i.test(value)
coupletTest(value, firsts, seconds) ==
    \E i \in 1..Len(value) : \E w1 \in firsts :
        /\ WordBoundary(value, i)
        /\ MatchesAtI(value, i, w1)
        /\ WordBoundary(value, i + Len(w1))
        /\ \E j \in (i + Len(w1))..Len(value) : \E w2 \in seconds :
               /\ DotStar(value, i + Len(w1), j)
               /\ WordBoundary(value, j)
               /\ MatchesAtI(value, j, w2)
               /\ WordBoundary(value, j + Len(w2))

\* the three couplets of rule 8, each a pair (first words, second words)
couplets ==
    << << {<<"l","o","v","e">>, <<"d","o","v","e">>},
          {<<"a","b","o","v","e">>, <<"m","o","v","e">>} >>,
       << {<<"h","e","a","r","t">>, <<"s","m","a","r","t">>},
          {<<"a","r","t">>, <<"p","a","r","t">>} >>,
       << {<<"l","i","g","h","t">>, <<"b","r","i","g","h","t">>},
          {<<"h","e","i","g","h","t">>, <<"m","i","g","h","t">>} >> >>

\* rule 8: couplets.some((couplet) => couplet.test(value))
validator8(value) ==
    \E c \in 1..Len(couplets) :
        coupletTest(value, couplets[c][1], couplets[c][2])

\* a division that yields 0 for the divisor 0
jsDivideZero(a, b) ==
    IF b = 0
    THEN [kind |-> "finite", num |-> 0, den |-> 1]
    ELSE [kind |-> "finite", num |-> a, den |-> b]

\* a JavaScript number that is the quotient of two non-negative integers
jsDivide(a, b) ==
    IF b = 0
    THEN IF a = 0 THEN [kind |-> "NaN", num |-> 0, den |-> 1]
                  ELSE [kind |-> "Infinity", num |-> 0, den |-> 1]
    ELSE [kind |-> "finite", num |-> a, den |-> b]

\* q === n for a quotient q and an integer n
quotientEquals(q, n) == q.kind = "finite" /\ q.num = n * q.den

\* /(\d+)\s*([+\-*/])\s*(\d+)\s*=\s*(\d+)/ tried at start index i
equationAt(value, i) ==
    LET aEnd  == RunEnd(value, i, Digit)
        opAt  == RunEnd(value, aEnd, Space)
        bAt   == RunEnd(value, opAt + 1, Space)
        bEnd  == RunEnd(value, bAt, Digit)
        eqAt  == RunEnd(value, bEnd, Space)
        rAt   == RunEnd(value, eqAt + 1, Space)
        rEnd  == RunEnd(value, rAt, Digit)
        found == /\ aEnd > i
                 /\ opAt <= Len(value) /\ value[opAt] \in Operator
                 /\ bEnd > bAt
                 /\ eqAt <= Len(value) /\ value[eqAt] = "="
                 /\ rEnd > rAt
    IN  IF found
        THEN [found  |-> TRUE,
              a      |-> SubSeq(value, i, aEnd - 1),
              op     |-> value[opAt],
              b      |-> SubSeq(value, bAt, bEnd - 1),
              result |-> SubSeq(value, rAt, rEnd - 1)]
        ELSE [found |-> FALSE, a |-> <<>>, op |-> "", b |-> <<>>,
              result |-> <<>>]

\* value.match(...): the leftmost match, or null (found = FALSE)
match(value) ==
    IF \E i \in 1..Len(value) : equationAt(value, i).found
    THEN equationAt(value,
             CHOOSE i \in 1..Len(value) :
                 /\ equationAt(value, i).found
                 /\ \A k \in 1..(i - 1) : ~ equationAt(value, k).found)
    ELSE equationAt(value, Len(value) + 1)

\* rule 9: the first equation of the value is checked; nothing in the try
\* block throws, so the catch branch is never taken
validator9(value) ==
    LET matches == match(value)
        a       == parseInt(matches.a)
        b       == parseInt(matches.b)
        result  == parseInt(matches.result)
    IN  IF ~ matches.found THEN FALSE
        ELSE CASE matches.op = "+" -> a + b = result
               [] matches.op = "-" -> a - b = result
               [] matches.op = "*" -> a * b = result
               [] matches.op = "/" -> quotientEquals(jsDivide(a, b), result)
               [] OTHER -> FALSE

\* /name.*achievement/i.test(value)
referenceTest(value, name, achievement) ==
    \E i \in 1..Len(value) :
        /\ MatchesAtI(value, i, name)
        /\ \E j \in (i + Len(name))..Len(value) :
               /\ DotStar(value, i + Len(name), j)
               /\ MatchesAtI(value, j, achievement)

\* /marie\s*curie.*radioactivity/i.test(value)
marieCurieTest(value) ==
    \E i \in 1..Len(value) :
        /\ MatchesAtI(value, i, <<"m","a","r","i","e">>)
        /\ LET c == RunEnd(value, i + 5, Space)
           IN  /\ MatchesAtI(value, c, <<"c","u","r","i","e">>)
               /\ \E j \in (c + 5)..Len(value) :
                      /\ DotStar(value, c + 5, j)
                      /\ MatchesAtI(value, j,
                             <<"r","a","d","i","o","a","c","t","i","v","i","t","y">>)

\* rule 10: historicalReferences.some((ref) => ref.test(value))
validator10(value) ==
    \/ referenceTest(value, <<"e","i","n","s","t","e","i","n">>,
                     <<"r","e","l","a","t","i","v","i","t","y">>)
    \/ referenceTest(value, <<"n","e","w","t","o","n">>,
                     <<"g","r","a","v","i","t","y">>)
    \/ marieCurieTest(value)
    \/ referenceTest(value, <<"t","e","s","l","a">>,
                     <<"e","l","e","c","t","r","i","c","i","t","y">>)

\* rule.validator(value) of the rule with the given id
validator(id, value) ==
    CASE id = 1 -> validator1(value)
      [] id = 2 -> validator2(value)
      [] id = 3 -> validator3(value)
      [] id = 4 -> validator4(value)
      [] id = 5 -> validator5(value)
      [] id = 6 -> validator6(value)
      [] id = 7 -> validator7(value)
      [] id = 8 -> validator8(value)
      [] id = 9 -> validator9(value)
      [] id = 10 -> validator10(value)

(***************************************************************************)
(* The pages and their rule sets                                           *)
(***************************************************************************)
\* PasswordGamePage: src/app/page.tsx; Page and page: password-schema.tsx
Pages == {"PasswordGamePage", "Page", "page"}

\* the ids of the rules array of a page, in array order
rules(p) ==
    IF p = "page" THEN <<1, 2, 3>>
    ELSE <<1, 2, 3, 4, 5, 6, 7, 8, 9, 10>>

\* array.includes(x)
includes(array, x) == \E i \in 1..Len(array) : array[i] = x

\* rules.find((rule) => rule.id === id) finds a rule
findsRule(p, id) == \E i \in 1..Len(rules(p)) : rules(p)[i] = id

\* !!password: a string is truthy when it is not empty
truthy(value) == Len(value) > 0

(***************************************************************************)
(* The reveal engine.  An update yields the new state value and whether it *)
(* is a new array (fresh): React re-renders only for a new array.          *)
(***************************************************************************)
\* updateVisibleRules that appends the next rule without validating the last
updateVisibleRulesUnchecked(p, pw, prevVisibleRules) ==
    IF ~ truthy(pw) THEN [value |-> <<>>, fresh |-> TRUE]
    ELSE IF Len(prevVisibleRules) = 0 THEN [value |-> <<1>>, fresh |-> TRUE]
    ELSE LET lastVisibleRule == prevVisibleRules[Len(prevVisibleRules)]
             nextRuleId      == lastVisibleRule + 1
         IN  IF /\ findsRule(p, lastVisibleRule)
                /\ nextRuleId <= Len(rules(p))
                /\ ~ includes(prevVisibleRules, nextRuleId)
             THEN [value |-> Append(prevVisibleRules, nextRuleId),
                   fresh |-> TRUE]
             ELSE [value |-> prevVisibleRules, fresh |-> FALSE]

\* updateVisibleRules that starts with the array index 0 instead of the id 1
updateVisibleRulesZero(p, pw, prevVisibleRules) ==
    IF ~ truthy(pw) THEN [value |-> <<>>, fresh |-> TRUE]
    ELSE IF Len(prevVisibleRules) = 0 THEN [value |-> <<0>>, fresh |-> TRUE]
    ELSE LET lastVisibleRule == prevVisibleRules[Len(prevVisibleRules)]
             nextRuleId      == lastVisibleRule + 1
         IN  IF /\ findsRule(p, lastVisibleRule)
                /\ validator(lastVisibleRule, pw)
                /\ nextRuleId <= Len(rules(p))
                /\ ~ includes(prevVisibleRules, nextRuleId)
             THEN [value |-> Append(prevVisibleRules, nextRuleId),
                   fresh |-> TRUE]
             ELSE [value |-> prevVisibleRules, fresh |-> FALSE]

\* updateVisibleRules that returns [nextRuleId] without the spread
updateVisibleRulesReplace(p, pw, prevVisibleRules) ==
    IF ~ truthy(pw) THEN [value |-> <<>>, fresh |-> TRUE]
    ELSE IF Len(prevVisibleRules) = 0 THEN [value |-> <<1>>, fresh |-> TRUE]
    ELSE LET lastVisibleRule == prevVisibleRules[Len(prevVisibleRules)]
             nextRuleId      == lastVisibleRule + 1
         IN  IF /\ findsRule(p, lastVisibleRule)
                /\ validator(lastVisibleRule, pw)
                /\ nextRuleId <= Len(rules(p))
                /\ ~ includes(prevVisibleRules, nextRuleId)
             THEN [value |-> <<nextRuleId>>, fresh |-> TRUE]
             ELSE [value |-> prevVisibleRules, fresh |-> FALSE]

\* updateVisibleRules that pushes onto the previous array and returns it
updateVisibleRulesInPlace(p, pw, prevVisibleRules) ==
    IF ~ truthy(pw) THEN [value |-> <<>>, fresh |-> TRUE]
    ELSE IF Len(prevVisibleRules) = 0 THEN [value |-> <<1>>, fresh |-> TRUE]
    ELSE LET lastVisibleRule == prevVisibleRules[Len(prevVisibleRules)]
             nextRuleId      == lastVisibleRule + 1
         IN  IF /\ findsRule(p, lastVisibleRule)
                /\ validator(lastVisibleRule, pw)
                /\ nextRuleId <= Len(rules(p))
                /\ ~ includes(prevVisibleRules, nextRuleId)
             THEN [value |-> Append(prevVisibleRules, nextRuleId),
                   fresh |-> FALSE]
             ELSE [value |-> prevVisibleRules, fresh |-> FALSE]

\* updateVisibleRules that validates the first visible rule, not the last
updateVisibleRulesFirst(p, pw, prevVisibleRules) ==
    IF ~ truthy(pw) THEN [value |-> <<>>, fresh |-> TRUE]
    ELSE IF Len(prevVisibleRules) = 0 THEN [value |-> <<1>>, fresh |-> TRUE]
    ELSE LET lastVisibleRule == prevVisibleRules[Len(prevVisibleRules)]
             nextRuleId      == lastVisibleRule + 1
         IN  IF /\ findsRule(p, prevVisibleRules[1])
                /\ validator(prevVisibleRules[1], pw)
                /\ nextRuleId <= Len(rules(p))
                /\ ~ includes(prevVisibleRules, nextRuleId)
             THEN [value |-> Append(prevVisibleRules, nextRuleId),
                   fresh |-> TRUE]
             ELSE [value |-> prevVisibleRules, fresh |-> FALSE]

\* PasswordGamePage: updateVisibleRules with the state prevVisibleRules
updateVisibleRules(p, pw, prevVisibleRules) ==
    IF ~ truthy(pw) THEN [value |-> <<>>, fresh |-> TRUE]
    ELSE IF Len(prevVisibleRules) = 0 THEN [value |-> <<1>>, fresh |-> TRUE]
    ELSE LET lastVisibleRule == prevVisibleRules[Len(prevVisibleRules)]
             nextRuleId      == lastVisibleRule + 1
         IN  IF /\ findsRule(p, lastVisibleRule)
                /\ validator(lastVisibleRule, pw)
                /\ nextRuleId <= Len(rules(p))
                /\ ~ includes(prevVisibleRules, nextRuleId)
             THEN [value |-> Append(prevVisibleRules, nextRuleId),
                   fresh |-> TRUE]
             ELSE [value |-> prevVisibleRules, fresh |-> FALSE]

\* effect without the reset on the empty input
effectNoReset(p, pw, rendered, prevRule) ==
    IF truthy(pw)
    THEN IF Len(rendered) = 0 THEN [value |-> <<1>>, fresh |-> TRUE]
         ELSE LET lastVisibleRule == rendered[Len(rendered)]
                  nextRuleId      == lastVisibleRule + 1
              IN  IF /\ findsRule(p, lastVisibleRule)
                     /\ validator(lastVisibleRule, pw)
                     /\ nextRuleId <= Len(rules(p))
                     /\ ~ includes(rendered, nextRuleId)
                  THEN [value |-> Append(prevRule, nextRuleId),
                        fresh |-> TRUE]
                  ELSE [value |-> prevRule, fresh |-> FALSE]
    ELSE [value |-> prevRule, fresh |-> FALSE]

\* effect without the test nextRuleId <= rules.length
effectUnbounded(p, pw, rendered, prevRule) ==
    IF truthy(pw)
    THEN IF Len(rendered) = 0 THEN [value |-> <<1>>, fresh |-> TRUE]
         ELSE LET lastVisibleRule == rendered[Len(rendered)]
                  nextRuleId      == lastVisibleRule + 1
              IN  IF /\ findsRule(p, lastVisibleRule)
                     /\ validator(lastVisibleRule, pw)
                     /\ ~ includes(rendered, nextRuleId)
                  THEN [value |-> Append(prevRule, nextRuleId),
                        fresh |-> TRUE]
                  ELSE [value |-> prevRule, fresh |-> FALSE]
    ELSE [value |-> <<>>, fresh |-> TRUE]

\* Page and page: the effect decides on the rendered visibleRules (rendered)
\* and the setter appends to the state it finds (prevRule)
effect(p, pw, rendered, prevRule) ==
    IF truthy(pw)
    THEN IF Len(rendered) = 0 THEN [value |-> <<1>>, fresh |-> TRUE]
         ELSE LET lastVisibleRule == rendered[Len(rendered)]
                  nextRuleId      == lastVisibleRule + 1
              IN  IF /\ findsRule(p, lastVisibleRule)
                     /\ validator(lastVisibleRule, pw)
                     /\ nextRuleId <= Len(rules(p))
                     /\ ~ includes(rendered, nextRuleId)
                  THEN [value |-> Append(prevRule, nextRuleId),
                        fresh |-> TRUE]
                  ELSE [value |-> prevRule, fresh |-> FALSE]
    ELSE [value |-> <<>>, fresh |-> TRUE]

\* the effect of page p, run with the rendered input pw and the rendered
\* visibleRules, on the state prev
effectOf(p, pw, rendered, prev) ==
    IF p = "PasswordGamePage"
    THEN updateVisibleRules(p, pw, prev)
    ELSE effect(p, pw, rendered, prev)

(***************************************************************************)
(* The presentation split                                                  *)
(***************************************************************************)
\* fulfilledRules without the test visibleRules.includes(rule.id)
fulfilledRulesAll(p, visible, pw) ==
    LET keep(id) == validator(id, pw)
    IN  SelectSeq(rules(p), keep)

\* Page: rules.filter(visible and valid)
fulfilledRules(p, visible, pw) ==
    LET keep(id) == includes(visible, id) /\ validator(id, pw)
    IN  SelectSeq(rules(p), keep)

\* Page: rules.filter(visible and not valid)
unfulfilledRules(p, visible, pw) ==
    LET keep(id) == includes(visible, id) /\ ~ validator(id, pw)
    IN  SelectSeq(rules(p), keep)

\* PasswordGamePage and page: isValid of a rule in rules.map
isValid(id, pw) == IF truthy(pw) THEN validator(id, pw) ELSE FALSE

\* PasswordGamePage and page: the rules that rules.map renders as checked
renderedValid(p, visible, pw) ==
    LET keep(id) == includes(visible, id) /\ isValid(id, pw)
    IN  SelectSeq(rules(p), keep)

\* PasswordGamePage and page: the rules that rules.map renders as crossed
renderedInvalid(p, visible, pw) ==
    LET keep(id) == includes(visible, id) /\ ~ isValid(id, pw)
    IN  SelectSeq(rules(p), keep)

\* the passing group a page shows
passing(p, visible, pw) ==
    IF p = "Page" THEN fulfilledRules(p, visible, pw)
    ELSE renderedValid(p, visible, pw)

\* the failing group a page shows
failing(p, visible, pw) ==
    IF p = "Page" THEN unfulfilledRules(p, visible, pw)
    ELSE renderedInvalid(p, visible, pw)

(***************************************************************************)
(* The inputs the collaborator types or pastes                             *)
(***************************************************************************)
Empty == <<>>
InA == <<"a">>
InAbcde == <<"a", "b", "c", "d", "e">>
InDigit == InAbcde \o <<"1">>
InUpper == InDigit \o <<"A">>
InTriple == InUpper \o <<"!", "!", "!">>
InSpecial == InUpper \o <<"!">>
InPalindrome == InSpecial \o <<" ", "l", "e", "v", "e", "l">>
InYear == InPalindrome \o <<" ", "1", "9", "8", "4">>
InCouplet == InYear \o <<" ", "L", "o", "v", "e", " ", "m", "o", "v", "e">>
InEquation == InCouplet \o <<" ", "2", "+", "2", "=", "4">>
InWrong == InCouplet \o <<" ", "2", "+", "2", "=", "5">>
InDivZero == InCouplet \o <<" ", "5", "/", "0", "=", "0">>
InZeroZero == InCouplet \o <<" ", "0", "/", "0", "=", "0">>
InAll == InEquation \o <<" ", "t", "e", "s", "l", "a", " ", "e", "l", "e", "c",
                         "t", "r", "i", "c", "i", "t", "y">>

\* the input after which rule k is the first failing rule, k = 1..10
Progression ==
    <<InA, InAbcde, InDigit, InUpper, InTriple, InSpecial, InPalindrome,
      InYear, InCouplet, InEquation>>

Inputs ==
    Range(Progression) \cup {Empty, InWrong, InDivZero, InZeroZero, InAll}

(***************************************************************************)
(* State                                                                   *)
(***************************************************************************)
VARIABLES
    password,      \* watch('password', ''): the input value of the last render
    visibleRules,  \* per page: visibleRules as the last render saw it
    hookState,     \* per page: the useState value with all updates applied
    phase,         \* per page: "effect" (rendered, effect to run),
                   \*   "render" (state set to a new array, render to come),
                   \*   "idle" (nothing scheduled)
    atChange,      \* per page: hookState when the input last changed
    verdict        \* the last rule.validator(password) call and what it gave

vars == <<password, visibleRules, hookState, phase, atChange, verdict>>

\* no validator has been called
NoVerdict == [rule |-> 0, result |-> FALSE]

\* what the effect of page p does to the state
runEffect(p) == effectOf(p, password, visibleRules[p], hookState[p])

\* mount: useState([]), watch gives '', the effect runs after the first render
Init ==
    /\ password = Empty
    /\ visibleRules = [p \in Pages |-> <<>>]
    /\ hookState = [p \in Pages |-> <<>>]
    /\ phase = [p \in Pages |-> "effect"]
    /\ atChange = [p \in Pages |-> <<>>]
    /\ verdict = NoVerdict

\* the collaborator changes the input: pending effects have been flushed,
\* the pages render with the new value and schedule their effects
Change(s) ==
    /\ s # password
    /\ \A p \in Pages : phase[p] # "effect"
    /\ password' = s
    /\ visibleRules' = hookState
    /\ phase' = [p \in Pages |-> "effect"]
    /\ atChange' = hookState
    /\ UNCHANGED <<hookState, verdict>>

\* the scheduled effects run
RunEffects ==
    /\ \E p \in Pages : phase[p] = "effect"
    /\ hookState' = [p \in Pages |->
           IF phase[p] = "effect" THEN runEffect(p).value ELSE hookState[p]]
    /\ phase' = [p \in Pages |->
           IF phase[p] = "effect"
           THEN IF runEffect(p).fresh THEN "render" ELSE "idle"
           ELSE phase[p]]
    /\ UNCHANGED <<password, visibleRules, atChange, verdict>>

\* a render whose partition writes the passing group back into the state
RenderStoringPassing ==
    /\ \E p \in Pages : phase[p] = "render"
    /\ visibleRules' = [p \in Pages |->
           IF phase[p] = "render" THEN hookState[p] ELSE visibleRules[p]]
    /\ hookState' = [p \in Pages |->
           IF phase[p] = "render"
           THEN passing(p, hookState[p], password) ELSE hookState[p]]
    /\ phase' = [p \in Pages |->
           IF phase[p] = "render" THEN "effect" ELSE phase[p]]
    /\ UNCHANGED <<password, atChange, verdict>>

\* the pages whose state was set render again and schedule their effects
Render ==
    /\ \E p \in Pages : phase[p] = "render"
    /\ visibleRules' = [p \in Pages |->
           IF phase[p] = "render" THEN hookState[p] ELSE visibleRules[p]]
    /\ phase' = [p \in Pages |->
           IF phase[p] = "render" THEN "effect" ELSE phase[p]]
    /\ UNCHANGED <<password, hookState, atChange, verdict>>

Next ==
    \/ \E s \in Inputs : Change(s)
    \/ RunEffects
    \/ Render

Spec == Init /\ [][Next]_vars

\* React runs every scheduled effect and every scheduled render
FairSpec == Spec /\ WF_vars(RunEffects) /\ WF_vars(Render)

(***************************************************************************)
(* The validators as functions of a string: the input is drawn from the    *)
(* texts over a few tokens and one validator is called on it.              *)
(***************************************************************************)
RECURSIVE Flatten(_)
Flatten(tokens) ==
    IF tokens = <<>> THEN <<>> ELSE Head(tokens) \o Flatten(Tail(tokens))

\* the texts made of at most n of the given tokens
Texts(tokens, n) ==
    {Flatten(ts) : ts \in UNION {[1..k -> tokens] : k \in 0..n}}

\* the page holds the input s and has called no validator yet
Holds(s) ==
    /\ password = s
    /\ visibleRules = [p \in Pages |-> <<>>]
    /\ hookState = [p \in Pages |-> <<>>]
    /\ phase = [p \in Pages |-> "effect"]
    /\ atChange = [p \in Pages |-> <<>>]
    /\ verdict = NoVerdict

\* rules[id - 1].validator(password) is called
Validate(id) ==
    /\ verdict = NoVerdict
    /\ verdict' = [rule |-> id, result |-> validator(id, password)]
    /\ UNCHANGED <<password, visibleRules, hookState, phase, atChange>>


(***************************************************************************)
(* Vocabulary of the properties                                            *)
(***************************************************************************)
Max(S) == CHOOSE x \in S : \A y \in S : y <= x

\* the sequence <<1, .., k>>
Prefix(k) == [i \in 1..k |-> i]

\* every page that carries the ten-rule set
TenRulePages == {p \in Pages : Len(rules(p)) = Len(Progression)}

\* a sequence of ids is in strictly ascending order
Ascending(ids) == \A i, j \in 1..Len(ids) : i < j => ids[i] < ids[j]

\* the step is an update of page p: its effect runs
Updates(p) == RunEffects /\ phase[p] = "effect"

\* C1: for a non-empty input and a non-empty previous visible set the last
\* element is the maximum id, and the update appends last + 1 exactly when
\* rule last passes, last + 1 <= N and last + 1 is not yet visible; in
\* every other case the visible set is returned unchanged.
C1_UpdateAppendsNext ==
    [][\A p \in Pages :
          (Updates(p) /\ truthy(password) /\ hookState[p] # <<>>) =>
              LET prev == hookState[p]
                  last == Max(Range(prev))
              IN  /\ prev[Len(prev)] = last
                  /\ hookState'[p] =
                         IF /\ validator(last, password)
                            /\ last + 1 <= Len(rules(p))
                            /\ last + 1 \notin Range(prev)
                         THEN Append(prev, last + 1)
                         ELSE prev]_vars

\* an update has appended the successor of a passing last rule
C1_Witness ==
    \E p \in Pages :
        /\ phase[p] = "render"
        /\ truthy(password)
        /\ Len(visibleRules[p]) >= 2
        /\ validator(visibleRules[p][Len(visibleRules[p])], password)
        /\ hookState[p] = Append(visibleRules[p], Len(visibleRules[p]) + 1)

\* C2: an update on the empty input returns the empty visible set whatever
\* the previous visible set was.
C2_EmptyInputResets ==
    [][\A p \in Pages :
          (Updates(p) /\ ~ truthy(password)) => hookState'[p] = <<>>]_vars

\* the input was cleared while rules were visible and the update has reset
C2_Witness ==
    \A p \in Pages :
        /\ password = Empty
        /\ phase[p] = "render"
        /\ Len(visibleRules[p]) >= 3
        /\ hookState[p] = <<>>

\* C3: an update on a non-empty input with an empty previous visible set
\* returns exactly <<1>>, whether or not rule 1 or later rules pass.
C3_FirstRuleRevealed ==
    [][\A p \in Pages :
          (Updates(p) /\ truthy(password) /\ hookState[p] = <<>>) =>
              hookState'[p] = <<1>>]_vars

\* the first update after a paste of an input that passes every rule
C3_Witness ==
    \A p \in Pages :
        /\ password = InAll
        /\ \A id \in Range(rules(p)) : validator(id, password)
        /\ visibleRules[p] = <<>>
        /\ phase[p] = "render"
        /\ hookState[p] = <<1>>

\* C4: every update on a non-empty input returns a superset of the previous
\* visible set with at most one member more.
C4_Monotonic ==
    [][\A p \in Pages :
          (Updates(p) /\ truthy(password)) =>
              /\ Range(hookState[p]) \subseteq Range(hookState'[p])
              /\ Cardinality(Range(hookState'[p]))
                     <= Cardinality(Range(hookState[p])) + 1]_vars

\* a session in which the visible set has grown by several updates
C4_Witness ==
    \E p \in Pages :
        /\ truthy(password)
        /\ phase[p] = "render"
        /\ Len(hookState[p]) = Len(visibleRules[p]) + 1
        /\ Len(hookState[p]) >= Len(atChange[p]) + 2

\* C5: the visible ids, in the state and as rendered, are always the
\* sequence 1..k for some 0 <= k <= N.
C5_VisiblePrefix ==
    \A p \in Pages :
        /\ Len(hookState[p]) <= Len(rules(p))
        /\ hookState[p] = Prefix(Len(hookState[p]))
        /\ Len(visibleRules[p]) <= Len(rules(p))
        /\ visibleRules[p] = Prefix(Len(visibleRules[p]))

\* every page shows all of its rules
C5_Witness ==
    \A p \in Pages : visibleRules[p] = rules(p) /\ phase[p] = "idle"

\* C6 as stated: after a paste of an input that passes every rule into the
\* empty field, the engine comes to rest showing rule 1 only.
C6_PasteShowsRuleOneOnly ==
    \A p \in Pages :
        (password = InAll /\ atChange[p] = <<>> /\ phase[p] = "idle") =>
            visibleRules[p] = <<1>>

\* C6 amended: after a paste of an input that passes every rule into the
\* empty field, the re-run updates reveal one rule each and the engine comes
\* to rest showing all N rules.
C6_PasteShowsAllRules ==
    \A p \in Pages :
        (password = InAll /\ atChange[p] = <<>>) =>
            /\ Len(hookState[p]) <= Len(visibleRules[p]) + 1
            /\ phase[p] = "idle" => visibleRules[p] = rules(p)

\* the engine at rest after the paste
C6_Witness ==
    \A p \in Pages :
        password = InAll /\ atChange[p] = <<>> /\ phase[p] = "idle"

\* C7: rule k + 1 becomes visible only in an update in which rule k is the
\* highest visible rule and passes the input; and on the ten-rule pages the
\* k-th input of the progression, typed while rules 1..k-1 are visible,
\* leaves rules 1..k visible with rule k failing.
C7_RevealedInOrder ==
    /\ [][\A p \in Pages : \A k \in 1..Len(rules(p)) :
             (k + 1 \in Range(hookState'[p]) /\ k + 1 \notin Range(hookState[p]))
                 => /\ Updates(p)
                    /\ hookState[p] # <<>>
                    /\ Max(Range(hookState[p])) = k
                    /\ validator(k, password)]_vars
    /\ [](\A p \in TenRulePages : \A k \in 1..Len(Progression) :
             (/\ password = Progression[k]
              /\ Len(atChange[p]) = k - 1
              /\ phase[p] = "idle")
                 => /\ visibleRules[p] = Prefix(k)
                    /\ ~ validator(k, password))

\* the last step of the progression: rule 10 visible and failing
C7_Witness ==
    \A p \in TenRulePages :
        /\ password = Progression[Len(Progression)]
        /\ atChange[p] = Prefix(Len(Progression) - 1)
        /\ phase[p] = "idle"
        /\ visibleRules[p] = Prefix(Len(Progression))

\* the two groups of page p split its rendered visible rules by validator
SplitByValidator(p) ==
    LET f == failing(p, visibleRules[p], password)
        g == passing(p, visibleRules[p], password)
    IN  /\ Range(f) \cap Range(g) = {}
        /\ Range(f) \cup Range(g) = Range(visibleRules[p])
        /\ Ascending(f)
        /\ Ascending(g)
        /\ Range(f) = {id \in Range(visibleRules[p]) : ~ validator(id, password)}
        /\ Range(g) = {id \in Range(visibleRules[p]) : validator(id, password)}

DivisionByZero == {InDivZero, InZeroZero}

\* C10: every validator returns a boolean on every input; rule 9 is false on
\* an equation that divides by zero, and an update or a partition on such
\* an input gives what it gives on a wrong equation.
C10_ValidatorsTotal ==
    /\ \A p \in Pages : \A id \in Range(rules(p)) :
           validator(id, password) \in BOOLEAN
    /\ password \in DivisionByZero =>
           /\ ~ validator(Len(Progression) - 1, password)
           /\ \A p \in Pages :
                  /\ passing(p, visibleRules[p], password)
                         = passing(p, visibleRules[p], InWrong)
                  /\ failing(p, visibleRules[p], password)
                         = failing(p, visibleRules[p], InWrong)
                  /\ phase[p] # "effect" =>
                         [value |-> hookState[p], fresh |-> phase[p] = "render"]
                             = effectOf(p, InWrong, visibleRules[p],
                                        visibleRules[p])

\* an update has tested rule 9 on a division by zero and revealed nothing
C10_Witness ==
    \A p \in TenRulePages :
        /\ password = InDivZero
        /\ visibleRules[p] = Prefix(Len(Progression) - 1)
        /\ hookState[p] = visibleRules[p]
        /\ phase[p] = "idle"

(***************************************************************************)
(* Rule 9 on the texts of digits, operators, = and blanks                  *)
(***************************************************************************)
MaxEquationLen == 6

EquationTokens ==
    {<<"0">>, <<"1">>, <<"2">>, <<"+">>, <<"/">>, <<"=">>, <<" ">>}

InitRule9 == \E s \in Texts(EquationTokens, MaxEquationLen) : Holds(s)

NextRule9 == Validate(9)

SpecRule9 == InitRule9 /\ [][NextRule9]_vars

\* some substring of value is <int> <op> <int> = <int> with a left side
\* equal to its right side; a / b = c counts when b # 0 and b * c = a
SomeEquationHolds(value) ==
    \E i \in 1..Len(value) :
        LET e == equationAt(value, i)
        IN  /\ e.found
            /\ \E n \in 1..Len(e.result) :
                   LET a == parseInt(e.a)
                       b == parseInt(e.b)
                       c == parseInt(SubSeq(e.result, 1, n))
                   IN  CASE e.op = "+" -> a + b = c
                         [] e.op = "-" -> a - b = c
                         [] e.op = "*" -> a * b = c
                         [] e.op = "/" -> b # 0 /\ b * c = a

\* C11: rule 9 is true exactly when some substring of the input is an
\* equation <int> <op> <int> = <int> whose left side equals its right side.
C11_Rule9AnyEquation ==
    verdict.rule = 9 => verdict.result = SomeEquationHolds(password)

(***************************************************************************)
(* Rule 5 on the texts of letters, a digit, a blank and a line separator   *)
(***************************************************************************)
MaxRunLen == 4

RunTokens == {<<"a">>, <<"A">>, <<"1">>, <<" ">>, <<"LS">>}

InitRule5 == \E s \in Texts(RunTokens, MaxRunLen) : Holds(s)

NextRule5 == Validate(5)

SpecRule5 == InitRule5 /\ [][NextRule5]_vars

\* value has a run of three or more identical consecutive characters
HasRunOfThree(value) ==
    \E i \in 1..(Len(value) - 2) :
        value[i] = value[i + 1] /\ value[i + 1] = value[i + 2]

\* C12: rule 5 is true exactly for the strings without a run of three or
\* more identical consecutive characters, whatever the characters are.
C12_Rule5NoRunOfThree ==
    verdict.rule = 5 => verdict.result = ~ HasRunOfThree(password)

(***************************************************************************)
(* Rule 6 on the texts of letters, a digit, a blank and pieces of "levels" *)
(***************************************************************************)
MaxWordTokens == 4

WordTokens ==
    {<<"a">>, <<"B">>, <<" ">>, <<"1">>, <<"l", "e", "v">>, <<"e", "l">>,
     <<"s">>}

InitRule6 == \E s \in Texts(WordTokens, MaxWordTokens) : Holds(s)

NextRule6 == Validate(6)

SpecRule6 == InitRule6 /\ [][NextRule6]_vars

IsLetter(c) == c \in Upper \cup Lower

\* the letters of a word, lowercased
LettersOf(word) == toLowerCase(SelectSeq(word, IsLetter))

\* value[i..j] is a whitespace-delimited word of value
IsWordOf(value, i, j) ==
    /\ i <= j
    /\ \A k \in i..j : value[k] \notin Space
    /\ i = 1 \/ value[i - 1] \in Space
    /\ j = Len(value) \/ value[j + 1] \in Space

\* some whitespace-delimited word has three letters or more that read the
\* same in both directions
HasPalindromeWord(value) ==
    \E i, j \in 1..Len(value) :
        /\ IsWordOf(value, i, j)
        /\ LET w == LettersOf(SubSeq(value, i, j))
           IN  /\ Len(w) >= 3
               /\ \A k \in 1..Len(w) : w[k] = w[Len(w) + 1 - k]

Level == <<"l", "e", "v", "e", "l">>

\* C13: rule 6 is true exactly when some whitespace-delimited word, with
\* its non-letters removed and lowercased, has length >= 3 and equals its
\* reverse; "level" passes and "levels" fails.
C13_Rule6PalindromeWord ==
    verdict.rule = 6 =>
        /\ verdict.result = HasPalindromeWord(password)
        /\ password = Level => verdict.result
        /\ password = Level \o <<"s">> => ~ verdict.result

\* rule 6 has passed a word that is a palindrome once its digit is removed
C13_Witness ==
    /\ verdict.rule = 6
    /\ verdict.result
    /\ password = <<"B", "1", "a", "B">>

(***************************************************************************)
(* Rule 7 on the texts of digits, a letter, a blank and an underscore      *)
(***************************************************************************)
MaxYearTokens == 4

YearTokens ==
    {<<"1", "9">>, <<"2", "0">>, <<"2">>, <<"3">>, <<"9">>, <<"a">>, <<" ">>,
     <<"_">>}

InitRule7 == \E s \in Texts(YearTokens, MaxYearTokens) : Holds(s)

NextRule7 == Validate(7)

SpecRule7 == InitRule7 /\ [][NextRule7]_vars

\* value[i..i+3] is four digits that read as a number in from..to
IsYearAt(value, i, from, to) ==
    /\ i >= 1 /\ i + 3 <= Len(value)
    /\ \A k \in i..(i + 3) : value[k] \in Digit
    /\ parseInt(SubSeq(value, i, i + 3)) \in from..to

\* value[k] is a letter, a digit or an underscore
IsTokenChar(value, k) ==
    k \in 1..Len(value) /\ value[k] \in Upper \cup Lower \cup Digit \cup {"_"}

\* value has, as a whole word, a four-digit token in from..to
HasYearToken(value, from, to) ==
    \E i \in 1..Len(value) :
        /\ IsYearAt(value, i, from, to)
        /\ ~ IsTokenChar(value, i - 1)
        /\ ~ IsTokenChar(value, i + 4)

C15_Rule7HonoursDescription ==
    (verdict.rule = 7 /\ verdict.result) =>
        \E i \in 1..Len(password) : IsYearAt(password, i, 1900, 2024)

(***************************************************************************)
(* Rule 8 on the texts of rhyme words, a blank, a letter and a line        *)
(* separator                                                               *)
(***************************************************************************)
MaxLyricTokens == 3

LyricTokens ==
    {<<"l", "o", "v", "e">>, <<"D", "o", "v", "e">>, <<"m", "o", "v", "e">>,
     <<"a", "b", "o", "v", "e">>, <<"h", "e", "a", "r", "t">>,
     <<"a", "r", "t">>, <<" ">>, <<"x">>, <<"LS">>}

InitRule8 == \E s \in Texts(LyricTokens, MaxLyricTokens) : Holds(s)

NextRule8 == Validate(8)

SpecRule8 == InitRule8 /\ [][NextRule8]_vars

\* the word w occurs in value at i, in any case, as a whole word
IsWholeWordAt(value, i, w) ==
    /\ MatchesAtI(value, i, w)
    /\ ~ IsTokenChar(value, i - 1)
    /\ ~ IsTokenChar(value, i + Len(w))

\* a first word of some group occurs and a second word of the same group
\* occurs later, with any text between
HasCouplet(value) ==
    \E c \in 1..Len(couplets) :
        \E w1 \in couplets[c][1], w2 \in couplets[c][2] :
            \E i, j \in 1..Len(value) :
                /\ IsWholeWordAt(value, i, w1)
                /\ j >= i + Len(w1)
                /\ IsWholeWordAt(value, j, w2)

\* C16: rule 8 is true exactly when a first word of one of the three groups
\* occurs and a second word of the same group occurs later in the string,
\* in any case and with any text between.
C16_Rule8OrderedPair ==
    verdict.rule = 8 => verdict.result = HasCouplet(password)

(***************************************************************************)
(* The engine: variants, frame, quiescence                                 *)
(***************************************************************************)
\* C17: run side by side, PasswordGamePage and Page hold the same visible
\* ids after every step; each effect of Page and page finds the state it
\* rendered and does what updateVisibleRules does with that page's rules
\* (for page: the engine with N = 3).
C17_VariantsAgree ==
    /\ [](/\ hookState["PasswordGamePage"] = hookState["Page"]
          /\ visibleRules["PasswordGamePage"] = visibleRules["Page"]
          /\ phase["PasswordGamePage"] = phase["Page"]
          /\ \A p \in Pages :
                 phase[p] = "effect" => visibleRules[p] = hookState[p])
    /\ [][\A p \in Pages :
             Updates(p) =>
                 [value |-> hookState'[p], fresh |-> phase'[p] = "render"]
                     = updateVisibleRules(p, password, hookState[p])]_vars

\* the ten-rule pages have just revealed rule 4, the three-rule page rests
C17_Witness ==
    /\ truthy(password)
    /\ \A p \in TenRulePages :
           phase[p] = "render" /\ hookState[p] = <<1, 2, 3, 4>>
    /\ phase["page"] = "idle"
    /\ hookState["page"] = <<1, 2, 3>>

\* C18: a render, which evaluates the rules and partitions them, leaves
\* the visible ids and the input unchanged; the visible ids change only in
\* an update; an update never changes the input.  (The rule set is fixed
\* per page: rules(p) depends on no variable.)
C18_ReadOnlyFrame ==
    [][/\ Render => hookState' = hookState /\ password' = password
       /\ \A p \in Pages :
              hookState'[p] # hookState[p] => Updates(p)
       /\ RunEffects => password' = password]_vars

\* a render has just shown a passing and a failing group on every page
C18_Witness ==
    /\ truthy(password)
    /\ \A p \in Pages :
           /\ phase[p] = "effect"
           /\ visibleRules[p] = hookState[p]
           /\ passing(p, visibleRules[p], password) # <<>>
           /\ failing(p, visibleRules[p], password) # <<>>

\* nothing is scheduled on any page
Quiescent == \A p \in Pages : phase[p] = "idle"

\* C19: after an input change, and after mount, the chain of update runs
\* ends: while the input stays as it is the pages come to rest.
C19_ReachesQuiescence ==
    \A s \in Inputs : (password = s) ~> (Quiescent \/ password # s)

\* the visible ids of page p after n updates on the input s, from visible
RECURSIVE updateTimes(_, _, _, _)
updateTimes(p, s, visible, n) ==
    IF n = 0 THEN visible
    ELSE updateTimes(p, s, effectOf(p, s, visible, visible).value, n - 1)

\* visible is a fixed point of the update of page p on the input s, of the
\* form <<1, .., k>> where rule k fails on s or k = N
RestsAt(p, s, visible) ==
    /\ effectOf(p, s, visible, visible) = [value |-> visible, fresh |-> FALSE]
    /\ \E k \in 1..Len(rules(p)) :
           /\ visible = Prefix(k)
           /\ ~ validator(k, s) \/ k = Len(rules(p))

\* C20: for every non-empty input, N updates from the visible ids of any
\* reachable state arrive at a fixed point <<1, .., k>> where rule k fails
\* or k = N; a page at rest on a non-empty input is at such a fixed point.
C20_FixedPointWithinN ==
    \A p \in Pages :
        /\ \A s \in Inputs \ {Empty} :
               RestsAt(p, s, updateTimes(p, s, hookState[p], Len(rules(p))))
        /\ (phase[p] = "idle" /\ truthy(password)) =>
               RestsAt(p, password, hookState[p])

\* every page rests with all its rules visible while a rule below the last
\* one fails
C20_Witness ==
    \A p \in Pages :
        /\ phase[p] = "idle"
        /\ truthy(password)
        /\ hookState[p] = Prefix(Len(rules(p)))
        /\ \E j \in 1..(Len(rules(p)) - 1) : ~ validator(j, password)

\* C21: in every rendered state an empty input goes with an empty visible
\* list and with no rule shown as passing, on every page.
C21_EmptyInputShowsNothing ==
    \A p \in Pages :
        ~ truthy(password) =>
            /\ visibleRules[p] = <<>>
            /\ passing(p, visibleRules[p], password) = <<>>

====
